---- MODULE Spec2Model ----
(***************************************************************************)
(* Debounced autosave of the page editor of src/workspace.js.              *)
(*                                                                         *)
(* State: the module-level currentPage / currentWorkspace, the DOM of the  *)
(* page editor (the title input and the .block textareas), the timeout of  *)
(* every debounce closure, and the network calls in flight.  Time is kept  *)
(* as the remaining delay of each pending timeout.                         *)
(***************************************************************************)
EXTENDS Integers, Sequences, FiniteSets, TLC

VARIABLES
  currentWorkspace, \* let currentWorkspace (line 5)
  currentPage,      \* let currentPage (line 6)
  view,             \* the .view element that is active (switchView)
  title,            \* value of the #page-title input
  blocks,           \* the .block elements of #page-blocks, in document order
  titleTimer,       \* timeout of the debounce closure of the title (line 40)
  orphans,          \* timeouts of closures whose textarea left the document
  loads,            \* openPage calls awaiting their response, oldest first
  creating,         \* createNewPage calls awaiting their response
  saves,            \* PUT requests of savePage awaiting their response
  nextSeq,          \* number of PUT requests issued so far, plus one
  lastOp,           \* history: the handler that ran last, and what it did
  sinceEdit,        \* history: time since the last input event
  run,              \* history: the edits and requests of the current edit run
  shown,            \* history: the page loadPageEditor rendered last
  sent,             \* history: the PUT bodies issued since the editor changed
  retry,            \* history: the last failed PUT request and what followed
  newest,           \* history: the newest updated_at a response has brought
  asked,            \* history: the id of the openPage call made last
  events            \* history: the number of user events so far

vars == <<currentWorkspace, currentPage, view, title, blocks, titleTimer, orphans,
          loads, creating, saves, nextSeq, lastOp, sinceEdit, run, shown, sent,
          retry, newest, asked, events>>

-----------------------------------------------------------------------------
(* Bounds of the model *)

MaxEvents == 3      \* most user events (input, Enter, open, create, navigate)

(* Program constant: the wait of debounce(savePage, 1000) *)
QuietInterval == 1000

TimeStep == QuietInterval \div 2
Off == 0 - 1        \* no timeout pending
Beyond == QuietInterval + TimeStep   \* "longer ago than the quiet interval"

-----------------------------------------------------------------------------
(* Values *)

NoPage == [id |-> "null"]
NoWorkspace == [id |-> "null"]
Workspace1 == [id |-> "w1"]

PageIds == {"p1", "p2"}
Views == {"dashboard", "pages"}   \* the views of the navigation items
TypedTexts == {"x", "y"}      \* what the user types into a field

Block(type, text, position) ==
  [type |-> type, content |-> [text |-> text], position |-> position]

(* The documents GET /pages/{id} can answer with. *)
Documents ==
  { [id |-> "p1", workspace_id |-> "w1", title |-> "T1", icon |-> "i1",
     content |-> << Block("heading", "a", 7), Block("paragraph", "&amp;", 3) >>,
     page_type |-> "page", properties |-> "props", updated_at |-> 0],
    [id |-> "p2", workspace_id |-> "w1", title |-> "T2", icon |-> "i2",
     content |-> << >>,
     page_type |-> "page", properties |-> "props", updated_at |-> 0] }

(* The document POST /pages answers createNewPage with. *)
CreatedPage ==
  [id |-> "p3", workspace_id |-> "w1", title |-> "Untitled", icon |-> "i1",
   content |-> << >>, page_type |-> "page", properties |-> "props",
   updated_at |-> 0]

(* The fields of a page object that the handlers read after it became
   currentPage (savePage, lines 336-349); its title and content are read
   only by loadPageEditor, from the response itself. *)
Kept(page) ==
  [id |-> page.id, workspace_id |-> page.workspace_id, icon |-> page.icon,
   page_type |-> page.page_type, properties |-> page.properties,
   updated_at |-> page.updated_at]

-----------------------------------------------------------------------------
(* The DOM of the editor *)

(* The value of a textarea whose content was written through innerHTML
   (line 293): the text is interpolated unescaped, so the HTML parser
   decodes the character references in it. *)
HtmlText(text) ==
  CASE text = "&amp;" -> "&"
    [] text = "&lt;" -> "<"
    [] OTHER -> text

(* addBlockToEditor(blockData, position), lines 284-303: the new .block
   element, with the timeout of its own debounce(savePage, 1000) closure. *)
BlockElement(blockData, position) ==
  [type |-> blockData.type,
   value |-> HtmlText(blockData.content.text),
   position |-> position,
   timer |-> Off]

(* Mutant: the placeholder of the textarea taken for its text. *)
EmptyParagraphPlaceholder ==
  [type |-> "paragraph", content |-> [text |-> "Type something..."]]

EmptyParagraph == [type |-> "paragraph", content |-> [text |-> ""]]

(* Mutant: loadPageEditor without the default block of lines 279-281. *)
EditorBlocksNoDefault(page) ==
  [i \in 1..Len(page.content) |-> BlockElement(page.content[i], i - 1)]

(* The children of #page-blocks after loadPageEditor(page), lines 271-281. *)
EditorBlocks(page) ==
  IF Len(page.content) > 0
    THEN [i \in 1..Len(page.content) |-> BlockElement(page.content[i], i - 1)]
    ELSE << BlockElement(EmptyParagraph, 0) >>

(* The timeouts still pending of the elements loadPageEditor removes
   (line 272 empties the container; nothing clears their timeouts). *)
Remaining == {r \in 0..QuietInterval : r % TimeStep = 0}

Detached(bs) ==
  [r \in Remaining |-> Cardinality({i \in DOMAIN bs : bs[i].timer = r})]

-----------------------------------------------------------------------------
(* savePage, lines 322-353 *)

(* Mutant: positions counted from 1. *)
SaveBlocksFromOne ==
  [i \in DOMAIN blocks |->
     [type |-> IF blocks[i].type = "" THEN "paragraph" ELSE blocks[i].type,
      content |-> [text |-> blocks[i].value],
      position |-> i]]

(* Mutant: blocks whose textarea is empty are left out of the payload. *)
SaveBlocksNonEmpty ==
  LET kept == SelectSeq(blocks, LAMBDA b : b.value # "")
  IN [i \in DOMAIN kept |->
        [type |-> IF kept[i].type = "" THEN "paragraph" ELSE kept[i].type,
         content |-> [text |-> kept[i].value],
         position |-> i - 1]]

(* lines 327-334: one entry per .block, its position the index in the list *)
SaveBlocks ==
  [i \in DOMAIN blocks |->
     [type |-> IF blocks[i].type = "" THEN "paragraph" ELSE blocks[i].type,
      content |-> [text |-> blocks[i].value],
      position |-> i - 1]]

(* Mutant: the properties sent depend on the time of the last save. *)
SaveBodyStamped ==
  [workspace_id |-> currentPage.workspace_id,
   title |-> title,
   icon |-> currentPage.icon,
   content |-> SaveBlocks,
   page_type |-> currentPage.page_type,
   properties |-> IF currentPage.updated_at = 0 THEN currentPage.properties
                  ELSE "stamped"]

(* lines 338-345: the body of the PUT request *)
SaveBody ==
  [workspace_id |-> currentPage.workspace_id,
   title |-> title,
   icon |-> currentPage.icon,
   content |-> SaveBlocks,
   page_type |-> currentPage.page_type,
   properties |-> currentPage.properties]

(* lines 336-337: the request, addressed to the current page's id *)
SaveRequest == [n |-> nextSeq, id |-> currentPage.id, body |-> SaveBody]

(* The representations of the updated page the server may answer with: the
   page as sent, with the properties bag as sent or in the server's own
   normal form, and stamped by the server (requests are stamped in the order
   savePage issued them). *)
Updated(req) ==
  { [id |-> req.id, workspace_id |-> req.body.workspace_id,
     icon |-> req.body.icon, page_type |-> req.body.page_type,
     properties |-> p, updated_at |-> req.n]
    : p \in {req.body.properties, "normal"} }

-----------------------------------------------------------------------------
(* Timeouts *)

RECURSIVE SumOf(_, _)
SumOf(f, S) ==
  IF S = {} THEN 0
  ELSE LET r == CHOOSE x \in S : TRUE IN f[r] + SumOf(f, S \ {r})

BlockTimers == {i \in DOMAIN blocks : blocks[i].timer # Off}

(* The number of setTimeout calls of debounce closures not yet run or
   cleared. *)
Pending ==
  (IF titleTimer # Off THEN 1 ELSE 0) + Cardinality(BlockTimers)
    + SumOf(orphans, Remaining)

Due ==
  \/ titleTimer = 0
  \/ \E i \in DOMAIN blocks : blocks[i].timer = 0
  \/ orphans[0] > 0

(* Mutant: a timeout already scheduled is left to run; only the first call
   of a burst schedules one. *)
DebouncedOnce(timeout) == IF timeout = Off THEN QuietInterval ELSE timeout

(* executedFunction, lines 46-53: clearTimeout(timeout), then
   timeout = setTimeout(later, wait): the closure's own timeout restarts. *)
Debounced(timeout) == QuietInterval

Elapse(timeout) == IF timeout = Off THEN Off ELSE timeout - TimeStep

-----------------------------------------------------------------------------
(* History *)

Buffer == [title |-> title, content |-> SaveBlocks]

NoRun == [live |-> FALSE, edits |-> << >>, reqs |-> << >>,
          close |-> TRUE, far |-> TRUE, fields |-> {}]

(* The fields of the editor: 0 is #page-title, i is the textarea of block
   i. *)
TitleField == 0

(* An edit run starts with an input event on an open page while no timeout
   is pending, and records every input event, with its field, and every PUT
   request after it; it ends with any other change of the editor. *)
RunAfterEdit(buffer, field) ==
  IF currentPage = NoPage THEN NoRun
  ELSE IF run.live
    THEN [run EXCEPT !.edits = Append(@, buffer),
                     !.close = @ /\ sinceEdit < QuietInterval,
                     !.far = @ /\ sinceEdit > QuietInterval,
                     !.fields = @ \cup {field}]
  ELSE IF ~run.live /\ Pending = 0
    THEN [NoRun EXCEPT !.live = TRUE, !.edits = << buffer >>,
                       !.fields = {field}]
  ELSE NoRun

RunAfterSave(buffer) ==
  IF run.live THEN [run EXCEPT !.reqs = Append(@, buffer)] ELSE run

(* The page rendered last, and whether the editor is still as rendered. *)
NoShown == [page |-> NoPage, pristine |-> FALSE]
Touched == [shown EXCEPT !.pristine = FALSE]

(* The carried-over fields of a PUT body (lines 339-344). *)
Carried(page) ==
  [workspace_id |-> page.workspace_id, icon |-> page.icon,
   page_type |-> page.page_type, properties |-> page.properties]

(* The PUT bodies issued since the title, a block text or the block list
   last changed; same: every response applied since the first of them left
   the carried-over fields of currentPage as they were. *)
NoSent == [bodies |-> << >>, same |-> TRUE]

SentAfterSave(body) ==
  [bodies |-> Append(sent.bodies, body),
   same |-> IF sent.bodies = << >> THEN TRUE ELSE sent.same]

SentAfterResponse(page) ==
  [sent EXCEPT !.same = @ /\ Carried(page) = Carried(currentPage)]

(* The last failed PUT request: what it carried, and the editor and
   currentPage as they were when the failure arrived; then the next input
   event on a block, and the PUT request issued after it. *)
NoRetry == [phase |-> "none"]

RetryAfterFailure(req) ==
  [phase |-> "failed",
   carried |-> [title |-> req.body.title, content |-> req.body.content],
   buffer |-> Buffer,
   page |-> currentPage]

RetryAfterEdit(i, text) ==
  IF retry.phase = "failed" /\ retry.carried = retry.buffer
    THEN [phase |-> "edited",
          want |-> [retry.carried EXCEPT !.content[i].content.text = text]]
    ELSE NoRetry

RetryAfterSave(buffer) ==
  IF retry.phase = "edited"
    THEN [phase |-> "resent", want |-> retry.want, got |-> buffer]
    ELSE retry

Did(op, alert) == lastOp' = [op |-> op, alert |-> alert]

(* No openPage call has been made, or one made since the last has failed. *)
NotAsked == "none"

(* A user event: one more of the MaxEvents the model follows. *)
UserEvent == events < MaxEvents /\ events' = events + 1

-----------------------------------------------------------------------------
(* Initial state: the page after DOMContentLoaded (lines 11-15).  No page is
   open; loadWorkspaces selected the first workspace, if there is one. *)
Init ==
  /\ currentWorkspace \in {NoWorkspace, Workspace1}
  /\ currentPage = NoPage
  /\ view = "dashboard"
  /\ title = ""
  /\ blocks = << >>
  /\ titleTimer = Off
  /\ orphans = [r \in Remaining |-> 0]
  /\ loads = << >>
  /\ creating = 0
  /\ saves = {}
  /\ nextSeq = 1
  /\ lastOp = [op |-> "init", alert |-> FALSE]
  /\ sinceEdit = Beyond
  /\ run = NoRun
  /\ shown = NoShown
  /\ sent = NoSent
  /\ retry = NoRetry
  /\ newest = 0
  /\ asked = NotAsked
  /\ events = 0

-----------------------------------------------------------------------------
(* Input events *)

(* Mutant: the title input has no listener, so typing into it schedules
   nothing. *)
EditTitleUnheard(text) ==
  /\ UserEvent
  /\ view = "page-editor"
  /\ title' = text
  /\ UNCHANGED <<currentWorkspace, asked, newest, view, currentPage, blocks, orphans,
                 loads, creating, saves, nextSeq, titleTimer>>
  /\ Did("edit", FALSE)
  /\ sinceEdit' = 0
  /\ run' = RunAfterEdit(Buffer', TitleField)
  /\ shown' = Touched
  /\ sent' = NoSent
  /\ retry' = NoRetry

(* An input event on #page-title (line 40). *)
EditTitle(text) ==
  /\ UserEvent
  /\ view = "page-editor"
  /\ title' = text
  /\ titleTimer' = Debounced(titleTimer)
  /\ UNCHANGED <<currentWorkspace, asked, newest, view, currentPage, blocks, orphans, loads,
                 creating, saves, nextSeq>>
  /\ Did("edit", FALSE)
  /\ sinceEdit' = 0
  /\ run' = RunAfterEdit(Buffer', TitleField)
  /\ shown' = Touched
  /\ sent' = NoSent
  /\ retry' = NoRetry

(* Mutant: the textareas take no input while a PUT request is in flight. *)
EditBlockWhenIdle(i, text) ==
  /\ UserEvent
  /\ view = "page-editor"
  /\ saves = {}
  /\ i \in DOMAIN blocks
  /\ blocks' = [blocks EXCEPT ![i].value = text,
                              ![i].timer = Debounced(blocks[i].timer)]
  /\ UNCHANGED <<currentWorkspace, asked, newest, view, currentPage, title, titleTimer, orphans,
                 loads, creating, saves, nextSeq>>
  /\ Did("edit", FALSE)
  /\ sinceEdit' = 0
  /\ run' = RunAfterEdit(Buffer', i)
  /\ shown' = Touched
  /\ sent' = NoSent
  /\ retry' = RetryAfterEdit(i, text)

(* An input event on the textarea of block i (line 301). *)
EditBlock(i, text) ==
  /\ UserEvent
  /\ view = "page-editor"
  /\ i \in DOMAIN blocks
  /\ blocks' = [blocks EXCEPT ![i].value = text,
                              ![i].timer = Debounced(blocks[i].timer)]
  /\ UNCHANGED <<currentWorkspace, asked, newest, view, currentPage, title, titleTimer, orphans,
                 loads, creating, saves, nextSeq>>
  /\ Did("edit", FALSE)
  /\ sinceEdit' = 0
  /\ run' = RunAfterEdit(Buffer', i)
  /\ shown' = Touched
  /\ sent' = NoSent
  /\ retry' = RetryAfterEdit(i, text)

(* Mutant: addBlock dispatches an input event on the new textarea, so that
   its debounce closure schedules savePage. *)
AddBlockScheduling ==
  /\ UserEvent
  /\ view = "page-editor"
  /\ blocks' = Append(blocks, [BlockElement(EmptyParagraph, Len(blocks))
                                 EXCEPT !.timer = QuietInterval])
  /\ UNCHANGED <<currentWorkspace, asked, newest, view, currentPage, title, titleTimer, orphans,
                 loads, creating, saves, nextSeq, sinceEdit>>
  /\ Did("addBlock", FALSE)
  /\ run' = NoRun
  /\ shown' = Touched
  /\ sent' = NoSent
  /\ retry' = NoRetry

(* addBlock, lines 305-313 (the Enter key, lines 315-320). *)
AddBlock ==
  /\ UserEvent
  /\ view = "page-editor"
  /\ blocks' = Append(blocks, BlockElement(EmptyParagraph, Len(blocks)))
  /\ UNCHANGED <<currentWorkspace, asked, newest, view, currentPage, title, titleTimer, orphans,
                 loads, creating, saves, nextSeq, sinceEdit>>
  /\ Did("addBlock", FALSE)
  /\ run' = NoRun
  /\ shown' = Touched
  /\ sent' = NoSent
  /\ retry' = NoRetry

-----------------------------------------------------------------------------
(* Time *)

(* TimeStep passes; no timeout is overdue. *)
Advance ==
  /\ UNCHANGED events
  /\ ~Due
  /\ Pending > 0 \/ sinceEdit < Beyond
  /\ titleTimer' = Elapse(titleTimer)
  /\ blocks' = [i \in DOMAIN blocks |->
                  [blocks[i] EXCEPT !.timer = Elapse(blocks[i].timer)]]
  /\ orphans' = [r \in Remaining |->
                  IF r + TimeStep \in Remaining THEN orphans[r + TimeStep]
                  ELSE 0]
  /\ sinceEdit' = IF sinceEdit < Beyond THEN sinceEdit + TimeStep ELSE Beyond
  /\ UNCHANGED <<currentWorkspace, asked, newest, view, currentPage, title, loads, creating,
                 saves, nextSeq, lastOp, run, shown, sent, retry>>

-----------------------------------------------------------------------------
(* savePage, run by the `later` of a debounce closure (lines 47-50) *)

(* Mutant: savePage returns while an earlier PUT request is in flight. *)
SavePageUnlessBusy ==
  IF currentPage = NoPage \/ saves # {}
    THEN /\ UNCHANGED <<saves, nextSeq, run, sent, retry>>
         /\ Did("savePage", FALSE)
    ELSE /\ saves' = saves \cup {SaveRequest}
         /\ nextSeq' = nextSeq + 1
         /\ Did("persist", FALSE)
         /\ run' = RunAfterSave(Buffer)
         /\ sent' = SentAfterSave(SaveBody)
         /\ retry' = RetryAfterSave(Buffer)

SavePage ==
  IF currentPage = NoPage                       \* line 323
    THEN /\ UNCHANGED <<saves, nextSeq, run, sent, retry>>
         /\ Did("savePage", FALSE)
    ELSE /\ saves' = saves \cup {SaveRequest}   \* lines 326-346
         /\ nextSeq' = nextSeq + 1
         /\ Did("persist", FALSE)
         /\ run' = RunAfterSave(Buffer)
         /\ sent' = SentAfterSave(SaveBody)
         /\ retry' = RetryAfterSave(Buffer)

FireTitle ==
  /\ UNCHANGED events
  /\ titleTimer = 0
  /\ titleTimer' = Off
  /\ SavePage
  /\ UNCHANGED <<currentWorkspace, asked, newest, view, currentPage, title, blocks, orphans,
                 loads, creating, sinceEdit, shown>>

FireBlock(i) ==
  /\ UNCHANGED events
  /\ i \in DOMAIN blocks
  /\ blocks[i].timer = 0
  /\ blocks' = [blocks EXCEPT ![i].timer = Off]
  /\ SavePage
  /\ UNCHANGED <<currentWorkspace, asked, newest, view, currentPage, title, titleTimer, orphans,
                 loads, creating, sinceEdit, shown>>

FireOrphan ==
  /\ UNCHANGED events
  /\ orphans[0] > 0
  /\ orphans' = [orphans EXCEPT ![0] = @ - 1]
  /\ SavePage
  /\ UNCHANGED <<currentWorkspace, asked, newest, view, currentPage, title, blocks, titleTimer,
                 loads, creating, sinceEdit, shown>>

(* Mutant: a response older than currentPage is dropped. *)
SaveSuccessIfNewer(req, page) ==
  /\ UNCHANGED events
  /\ req \in saves
  /\ page \in Updated(req)
  /\ saves' = saves \ {req}
  /\ currentPage' = IF page.updated_at > currentPage.updated_at THEN page
                    ELSE currentPage
  /\ UNCHANGED <<currentWorkspace, asked, view, title, blocks, titleTimer, orphans, loads,
                 creating, nextSeq, sinceEdit, run, shown, retry>>
  /\ sent' = SentAfterResponse(page)
  /\ newest' = IF page.updated_at > newest THEN page.updated_at ELSE newest
  /\ Did("saved", FALSE)

(* Mutant: the response is merged into currentPage without its updated_at. *)
SaveSuccessKeepsStamp(req, page) ==
  /\ UNCHANGED events
  /\ req \in saves
  /\ page \in Updated(req)
  /\ saves' = saves \ {req}
  /\ currentPage' = [page EXCEPT !.updated_at = currentPage.updated_at]
  /\ UNCHANGED <<currentWorkspace, asked, view, title, blocks, titleTimer, orphans, loads,
                 creating, nextSeq, sinceEdit, run, shown, retry>>
  /\ sent' = SentAfterResponse(page)
  /\ newest' = IF page.updated_at > newest THEN page.updated_at ELSE newest
  /\ Did("saved", FALSE)

(* The `later` of some debounce closure runs (lines 47-50). *)
Fire == FireTitle \/ (\E i \in DOMAIN blocks : FireBlock(i)) \/ FireOrphan

(* The PUT request succeeds: lines 348-349. *)
SaveSuccess(req, page) ==
  /\ UNCHANGED events
  /\ req \in saves
  /\ page \in Updated(req)
  /\ saves' = saves \ {req}
  /\ currentPage' = page
  /\ UNCHANGED <<currentWorkspace, asked, view, title, blocks, titleTimer, orphans, loads,
                 creating, nextSeq, sinceEdit, run, shown, retry>>
  /\ sent' = SentAfterResponse(page)
  /\ newest' = IF page.updated_at > newest THEN page.updated_at ELSE newest
  /\ Did("saved", FALSE)

(* Mutant: the assignment of line 348 runs after a failure too, with no
   page to assign. *)
SaveFailureDropsPage(req) ==
  /\ UNCHANGED events
  /\ req \in saves
  /\ saves' = saves \ {req}
  /\ currentPage' = NoPage
  /\ UNCHANGED <<currentWorkspace, asked, newest, view, title, blocks, titleTimer,
                 orphans, loads, creating, nextSeq, sinceEdit, run, shown,
                 sent>>
  /\ retry' = RetryAfterFailure(req)
  /\ Did("saveFailed", FALSE)

(* The PUT request fails: apiCall throws, lines 350-352. *)
SaveFailure(req) ==
  /\ UNCHANGED events
  /\ req \in saves
  /\ saves' = saves \ {req}
  /\ UNCHANGED <<currentWorkspace, asked, newest, view, currentPage, title, blocks, titleTimer,
                 orphans, loads, creating, nextSeq, sinceEdit, run, shown,
                 sent>>
  /\ retry' = RetryAfterFailure(req)
  /\ Did("saveFailed", FALSE)

-----------------------------------------------------------------------------
(* openPage, createNewPage and loadPageEditor *)

(* Mutant: a fetched page is not shown while a timeout is pending. *)
ShowPageWhenSettled(page) ==
  IF Pending > 0
    THEN UNCHANGED <<currentPage, view, title, blocks, orphans, run, shown,
                     sent, retry, newest>>
    ELSE /\ currentPage' = Kept(page)
         /\ view' = "page-editor"
         /\ title' = page.title
         /\ blocks' = EditorBlocks(page)
         /\ orphans' = [r \in Remaining |-> orphans[r] + Detached(blocks)[r]]
         /\ run' = NoRun
         /\ shown' = [page |-> page, pristine |-> TRUE]
         /\ sent' = NoSent
         /\ retry' = NoRetry
         /\ newest' = page.updated_at

(* currentPage = page; switchView; loadPageEditor(page): lines 245-247,
   257-259 and 266-282. *)
ShowPage(page) ==
  /\ currentPage' = Kept(page)
  /\ view' = "page-editor"
  /\ title' = page.title
  /\ blocks' = EditorBlocks(page)
  /\ orphans' = [r \in Remaining |-> orphans[r] + Detached(blocks)[r]]
  /\ run' = NoRun
  /\ shown' = [page |-> page, pristine |-> TRUE]
  /\ sent' = NoSent
  /\ retry' = NoRetry
  /\ newest' = page.updated_at

(* openPage(pageId) is called and awaits GET /pages/{id}: line 256. *)
OpenPage(pageId) ==
  /\ UserEvent
  /\ loads' = Append(loads, pageId)
  /\ UNCHANGED <<currentWorkspace, newest, view, currentPage, title, blocks, titleTimer,
                 orphans, creating, saves, nextSeq, sinceEdit, run, shown, sent, retry>>
  /\ Did("openPage", FALSE)
  /\ asked' = pageId

Without(seq, k) == [j \in 1..(Len(seq) - 1) |-> IF j < k THEN seq[j] ELSE seq[j + 1]]

LoadSuccess(k, page) ==
  /\ UNCHANGED events
  /\ k \in DOMAIN loads
  /\ page \in Documents
  /\ page.id = loads[k]
  /\ loads' = Without(loads, k)
  /\ ShowPage(page)
  /\ UNCHANGED <<currentWorkspace, asked, titleTimer, creating, saves, nextSeq,
                 sinceEdit>>
  /\ Did("loaded", FALSE)

(* lines 260-263 *)
LoadFailure(k) ==
  /\ UNCHANGED events
  /\ k \in DOMAIN loads
  /\ loads' = Without(loads, k)
  /\ UNCHANGED <<currentWorkspace, newest, view, currentPage, title, blocks, titleTimer,
                 orphans, creating, saves, nextSeq, sinceEdit, run, shown, sent, retry>>
  /\ Did("loadFailed", TRUE)
  /\ asked' = NotAsked

(* createNewPage, lines 227-243 *)
CreateNewPage ==
  /\ UserEvent
  /\ IF currentWorkspace = NoWorkspace
       THEN /\ UNCHANGED creating
            /\ Did("createNewPage", TRUE)             \* lines 228-231
       ELSE /\ creating' = creating + 1
            /\ Did("createNewPage", FALSE)
  /\ UNCHANGED <<currentWorkspace, asked, newest, view, currentPage, title, blocks, titleTimer,
                 orphans, loads, saves, nextSeq, sinceEdit, run, shown, sent, retry>>

CreateSuccess ==
  /\ UNCHANGED events
  /\ creating > 0
  /\ creating' = creating - 1
  /\ ShowPage(CreatedPage)
  /\ UNCHANGED <<currentWorkspace, asked, titleTimer, loads, saves, nextSeq,
                 sinceEdit>>
  /\ Did("created", FALSE)

(* lines 248-251 *)
CreateFailure ==
  /\ UNCHANGED events
  /\ creating > 0
  /\ creating' = creating - 1
  /\ UNCHANGED <<currentWorkspace, asked, newest, view, currentPage, title, blocks, titleTimer,
                 orphans, loads, saves, nextSeq, sinceEdit, run, shown, sent, retry>>
  /\ Did("createFailed", TRUE)

(* Mutant: switchView clears the timeouts of the editor it hides. *)
NavigateCancelling(to) ==
  /\ UserEvent
  /\ view # to
  /\ view' = to
  /\ titleTimer' = Off
  /\ blocks' = [i \in DOMAIN blocks |-> [blocks[i] EXCEPT !.timer = Off]]
  /\ orphans' = [r \in Remaining |-> 0]
  /\ UNCHANGED <<currentWorkspace, asked, newest, currentPage, title, loads, creating, saves,
                 nextSeq, sinceEdit, run, shown, sent, retry>>
  /\ Did("switchView", FALSE)

(* A click on a navigation item: switchView(view), lines 20-27 and
   427-460.  Nothing of the editor or of its timeouts is touched. *)
Navigate(to) ==
  /\ UserEvent
  /\ view # to
  /\ view' = to
  /\ UNCHANGED <<currentWorkspace, asked, newest, currentPage, title, blocks, titleTimer,
                 orphans, loads, creating, saves, nextSeq, sinceEdit, run,
                 shown, sent, retry>>
  /\ Did("switchView", FALSE)

-----------------------------------------------------------------------------
Next ==
  \/ \E text \in TypedTexts : EditTitle(text)
  \/ \E i \in DOMAIN blocks, text \in TypedTexts : EditBlock(i, text)
  \/ AddBlock
  \/ Advance
  \/ FireTitle
  \/ \E i \in DOMAIN blocks : FireBlock(i)
  \/ FireOrphan
  \/ \E req \in saves, page \in UNION {Updated(r) : r \in saves} :
       SaveSuccess(req, page)
  \/ \E req \in saves : SaveFailure(req)
  \/ \E pageId \in PageIds : OpenPage(pageId)
  \/ \E k \in DOMAIN loads, page \in Documents : LoadSuccess(k, page)
  \/ \E k \in DOMAIN loads : LoadFailure(k)
  \/ CreateNewPage
  \/ CreateSuccess
  \/ CreateFailure
  \/ \E to \in Views : Navigate(to)

Spec == Init /\ [][Next]_vars

(* Time passes, and the event loop runs the `later` of every timeout that is
   due: setTimeout callbacks are never starved. *)
FairSpec == Spec /\ WF_vars(Advance) /\ WF_vars(Fire)

(* The state after openPage has loaded a page from the dashboard (lines
   254-282), followed from there for MaxEvents further user events. *)
InitOpen ==
  \E page \in Documents :
    /\ currentWorkspace = Workspace1
    /\ currentPage = Kept(page)
    /\ view = "page-editor"
    /\ title = page.title
    /\ blocks = EditorBlocks(page)
    /\ titleTimer = Off
    /\ orphans = [r \in Remaining |-> 0]
    /\ loads = << >>
    /\ creating = 0
    /\ saves = {}
    /\ nextSeq = 1
    /\ lastOp = [op |-> "loaded", alert |-> FALSE]
    /\ sinceEdit = Beyond
    /\ run = NoRun
    /\ shown = [page |-> page, pristine |-> TRUE]
    /\ sent = NoSent
    /\ retry = NoRetry
    /\ newest = page.updated_at
    /\ asked = page.id
    /\ events = 0

SpecOpen == InitOpen /\ [][Next]_vars

-----------------------------------------------------------------------------
(* The PUT request savePage issued in the step that led to this state. *)
JustSent == CHOOSE req \in saves : req.n = nextSeq - 1
Persisted == lastOp.op = "persist"

(* C2: at every moment at most one persist timer is pending, the title field
   and all block editors counted together. *)
C2_OneTimerLive == Pending <= 1

(* C5: every failed load and every failed persist is reported to the user
   through a blocking notification. *)
C5_FailuresNotified ==
  lastOp.op \in {"loadFailed", "saveFailed"} => lastOp.alert

(* C9: whenever a document is open, the editor holds at least one block. *)
C9_AtLeastOneBlock == currentPage # NoPage => Len(blocks) >= 1

(* C9 witness: an empty document was opened, rendered with one block, and a
   block was added to it. *)
C9_Witness ==
  /\ currentPage # NoPage
  /\ shown.page # NoPage
  /\ Len(shown.page.content) = 0
  /\ Len(blocks) = 2

(* C10: in every persist payload the block positions are 0, 1, ..., n-1 in
   the order of the blocks in the editor. *)
C10_PositionsContiguous ==
  \A req \in saves :
    \A i \in DOMAIN req.body.content : req.body.content[i].position = i - 1

(* C10 witness: a payload of two blocks of a document whose blocks were
   loaded with positions 7 and 3. *)
C10_Witness ==
  /\ Persisted
  /\ shown.page # NoPage
  /\ Len(shown.page.content) = 2
  /\ shown.page.content[1].position = 7
  /\ Len(JustSent.body.content) = 2
  /\ JustSent.body.content[2].position = 1

(* C1: for every sequence of edits, each less than the quiet interval after
   the previous one, exactly one persist request is issued, and it carries
   the buffer as of the last edit of the sequence. *)
C1_OnePersistPerBurst ==
  run.live /\ run.close =>
    /\ Len(run.reqs) <= 1
    /\ Len(run.reqs) = 1 => run.reqs[1] = run.edits[Len(run.edits)]

(* C3: for every sequence of edits, each more than the quiet interval after
   the previous one, one persist request is issued per edit, and the k-th
   request carries the buffer as of the k-th edit. *)
C3_OnePersistPerSpacedEdit ==
  run.live /\ run.far =>
    /\ Len(run.reqs) + Pending = Len(run.edits)
    /\ \A k \in DOMAIN run.reqs : run.reqs[k] = run.edits[k]

(* C3 witness: two spaced edits, two requests, with different payloads. *)
C3_Witness ==
  /\ run.live
  /\ run.far
  /\ Len(run.edits) = 2
  /\ Len(run.reqs) = 2
  /\ run.reqs[1] # run.reqs[2]

(* C4: when a persist request fails, currentPage, the title and the block
   texts are what they were before, and the persist issued after the next
   edit of a block carries what the failed request carried, plus that edit. *)
C4_FailureKeepsBuffer ==
  /\ lastOp.op = "saveFailed" =>
       /\ retry.phase = "failed"
       /\ Buffer = retry.buffer
       /\ currentPage = retry.page
  /\ retry.phase = "resent" => retry.got = retry.want

(* C4 witness: a request failed, a block was edited, and the next request
   was issued. *)
C4_Witness ==
  /\ retry.phase = "resent"
  /\ Persisted
  /\ JustSent.body.content = retry.got.content

(* C6: load followed by persist with no edit in between sends as many blocks
   as the loaded document has, with the same type and text block by block,
   positions renumbered from 0 (documents of at least one block; C8 is the
   document of none). *)
C6_RoundTrip ==
  Persisted /\ shown.pristine /\ Len(shown.page.content) > 0 =>
    LET body == JustSent.body.content
        page == shown.page.content
    IN /\ Len(body) = Len(page)
       /\ \A i \in DOMAIN page :
            /\ i \in DOMAIN body
            /\ body[i].type = page[i].type
            /\ body[i].content.text = page[i].content.text
            /\ body[i].position = i - 1

C8_EmptyDocument ==
  shown.pristine /\ Len(shown.page.content) = 0 =>
    /\ Len(blocks) = 1
    /\ blocks[1].type = "paragraph"
    /\ blocks[1].value = ""
    /\ Persisted => JustSent.body.content = << Block("paragraph", "", 0) >>

(* C8 witness: a persist issued right after a document of zero blocks was
   loaded. *)
C8_Witness ==
  /\ shown.pristine
  /\ Len(shown.page.content) = 0
  /\ Persisted

-----------------------------------------------------------------------------
(* A step that is a call of addBlock. *)
AddBlockStep == events' # events /\ lastOp'.op = "addBlock"

(* C11: addBlock appends one paragraph block with empty text at the end,
   leaves every existing block and the title as they were, issues no persist
   request, and schedules, cancels or resets no persist timer. *)
C11_AddBlockFrame ==
  [][AddBlockStep =>
       /\ Len(blocks') = Len(blocks) + 1
       /\ blocks'[Len(blocks')].type = "paragraph"
       /\ blocks'[Len(blocks')].value = ""
       /\ blocks'[Len(blocks')].timer = Off
       /\ \A i \in DOMAIN blocks : blocks'[i] = blocks[i]
       /\ title' = title
       /\ saves' = saves
       /\ nextSeq' = nextSeq
       /\ titleTimer' = titleTimer
       /\ orphans' = orphans]_vars

(* C11 witness: a block was added to an edited page while the timeout of the
   edit was pending. *)
C11_Witness ==
  /\ lastOp.op = "addBlock"
  /\ Pending > 0
  /\ sinceEdit < QuietInterval
  /\ Len(blocks) >= 2

-----------------------------------------------------------------------------
(* The payload of a request is the title field and the textareas as they
   are. *)
CarriesEditor(req) ==
  /\ req.body.title = title
  /\ Len(req.body.content) = Len(blocks)
  /\ \A i \in DOMAIN blocks :
       /\ req.body.content[i].content.text = blocks[i].value
       /\ req.body.content[i].type = blocks[i].type

(* C12: the payload of a persist request is the buffer at the moment the
   timer fires, with every title change, block text change and block added
   before the firing, blocks added after the last edit included; and nothing
   that happens after the firing changes the payload of that request. *)
C12_PayloadAtFiring ==
  /\ [](Persisted => CarriesEditor(JustSent))
  /\ [][\A req \in saves' : req.n < nextSeq => req \in saves]_vars

(* C12 witness: a request issued by the timeout of an edit carries the edit
   and a block added after the edit. *)
C12_Witness ==
  /\ Persisted
  /\ ~run.live
  /\ shown.page # NoPage
  /\ Len(shown.page.content) >= 1
  /\ Len(blocks) = Len(shown.page.content) + 1
  /\ Len(JustSent.body.content) = Len(blocks)
  /\ JustSent.body.content[Len(blocks)].content.text = ""
  /\ \/ JustSent.body.title \in TypedTexts
     \/ \E i \in DOMAIN blocks : JustSent.body.content[i].content.text \in TypedTexts

-----------------------------------------------------------------------------
(* A step in which the response to a PUT request arrives with the updated
   page, the request it answers, and the updated_at of that response. *)
SavedStep == saves' # saves /\ lastOp'.op = "saved"
Answered == CHOOSE req \in saves : req \notin saves'
Stamp(req) == req.n

(* C13: when a persist request succeeds, the local document's last-modified
   timestamp becomes the timestamp in the server's response to that
   request. *)
C13_TimestampFromResponse ==
  [][SavedStep => currentPage'.updated_at = Stamp(Answered)]_vars

(* C13 witness: the response to the only request issued was applied, and
   the page loaded with timestamp 0 has the timestamp of the response. *)
C13_Witness ==
  /\ lastOp.op = "saved"
  /\ shown.page # NoPage
  /\ shown.page.updated_at = 0
  /\ nextSeq = 2
  /\ currentPage.updated_at = 1

-----------------------------------------------------------------------------
(* Steps in which the GET request of an openPage call returns, with the page
   or with an error, and the call it belongs to. *)
LoadedStep == loads' # loads /\ lastOp'.op = "loaded"
LoadFailedStep == loads' # loads /\ lastOp'.op = "loadFailed"
Returned == CHOOSE k \in DOMAIN loads : loads' = Without(loads, k)
Fetched == CHOOSE page \in Documents : page.id = loads[Returned]

(* C14: when a load succeeds, the current document becomes the fetched
   document and the editor shows one block per block of it (one empty
   paragraph for a document without blocks), whatever document was open and
   whatever timers or requests were pending; when a load fails, the current
   document and the rendered editor are left as they were. *)
C14_LoadReplacesOrKeeps ==
  /\ [][LoadedStep =>
          /\ currentPage' = Kept(Fetched)
          /\ view' = "page-editor"
          /\ title' = Fetched.title
          /\ Len(blocks') = IF Len(Fetched.content) = 0 THEN 1
                            ELSE Len(Fetched.content)
          /\ \A i \in DOMAIN Fetched.content :
               blocks'[i].type = Fetched.content[i].type
          /\ Len(Fetched.content) = 0 =>
               blocks'[1].type = "paragraph" /\ blocks'[1].value = ""]_vars
  /\ [][LoadFailedStep =>
          /\ currentPage' = currentPage
          /\ view' = view
          /\ title' = title
          /\ blocks' = blocks]_vars

(* C14 witness: page p2 was loaded over another page while a timeout of
   that page's editor was pending or a request for it was in flight. *)
C14_Witness ==
  /\ lastOp.op = "loaded"
  /\ currentPage.id = "p2"
  /\ Len(blocks) = 1
  /\ Pending > 0 \/ saves # {}

-----------------------------------------------------------------------------
(* C15: once a different document has been opened, the document open before
   is discarded: the current document is the one loaded last, and a document
   open earlier never becomes the current document again unless it is loaded
   again. *)
C15_PreviousDiscarded ==
  currentPage # NoPage => currentPage.id = shown.page.id

-----------------------------------------------------------------------------
(* A step that switches away from the editor as it is: to another view, or
   to another page loaded or created. *)
SwitchStep ==
  \/ events' # events /\ lastOp'.op = "switchView"
  \/ loads' # loads /\ lastOp'.op = "loaded"
  \/ creating' # creating /\ lastOp'.op = "created"

(* C16: switching away from the editor cancels nothing.  The switch leaves
   every pending timeout pending and every request in flight; a timeout ends
   only by firing, and its firing issues a persist request for the current
   page whatever the view; and a response that arrives while another view is
   shown is applied to currentPage. *)
C16_SwitchCancelsNothing ==
  /\ [][SwitchStep =>
          /\ Pending' = Pending
          /\ titleTimer' = titleTimer
          /\ saves' = saves]_vars
  /\ [][Pending' < Pending =>
          /\ Pending' = Pending - 1
          /\ nextSeq' = nextSeq + 1
          /\ \E req \in saves' \ saves : req.id = currentPage.id]_vars
  /\ [][SavedStep /\ view # "page-editor" =>
          currentPage' \in Updated(Answered)]_vars

(* C16 witness: the timeout of an edit fired and issued its request after
   the user had navigated to another view. *)
C16_Witness ==
  /\ Persisted
  /\ view # "page-editor"
  /\ JustSent.body.title \in TypedTexts
       \/ \E i \in DOMAIN JustSent.body.content :
            JustSent.body.content[i].content.text \in TypedTexts

-----------------------------------------------------------------------------
(* C17: an edit is accepted in every state in which the editor is shown,
   also while persist requests are in flight: typing into the title or into
   any block is possible, puts the typed text into the field at once and
   starts the field's quiet interval, and leaves the requests in flight as
   they are (stated for the user events the model follows). *)
C17_EditAlwaysAccepted ==
  view = "page-editor" /\ events < MaxEvents =>
    \A text \in TypedTexts :
      /\ ENABLED (/\ EditTitle(text)
                  /\ title' = text
                  /\ titleTimer' = QuietInterval
                  /\ saves' = saves)
      /\ \A i \in DOMAIN blocks :
           ENABLED (/\ EditBlock(i, text)
                    /\ blocks'[i].value = text
                    /\ blocks'[i].timer = QuietInterval
                    /\ saves' = saves)

(* C17 witness: an edit was made while a request was in flight. *)
C17_Witness ==
  /\ lastOp.op = "edit"
  /\ saves # {}
  /\ sinceEdit = 0
  /\ Pending > 0

-----------------------------------------------------------------------------
(* C18: persist responses are applied in arrival order with no version
   check: a response stamped earlier than the local document is applied like
   any other and leaves the local document with its earlier timestamp; and
   with two requests in flight the response to the earlier one can arrive
   after the response to the later one (the witness). *)
C18_NoVersionCheck ==
  [][SavedStep /\ Stamp(Answered) < currentPage.updated_at =>
       /\ currentPage'.id = Answered.id
       /\ currentPage'.updated_at = Stamp(Answered)
       /\ currentPage'.updated_at < currentPage.updated_at]_vars

(* C18 witness: two requests were in flight, the response to the second was
   applied first, and the response to the first, applied last, left
   currentPage with the earlier timestamp. *)
C18_Witness ==
  /\ lastOp.op = "saved"
  /\ nextSeq = 3
  /\ saves = {}
  /\ newest = 2
  /\ currentPage.updated_at = 1

-----------------------------------------------------------------------------
(* C19: while edits to one field keep arriving, each less than the quiet
   interval after the one before, no persist request is issued, however long
   they go on: from the first edit of such a run until a quiet interval has
   passed after its last edit, no request has been issued. *)
C19_NoRequestWhileEditing ==
  /\ run.live
  /\ run.close
  /\ Cardinality(run.fields) = 1
  /\ sinceEdit < QuietInterval
  => run.reqs = << >>

(* C19 witness: a second edit of the same field came within the quiet
   interval of the first, part of its own quiet interval has passed, and no
   request has been issued. *)
C19_Witness ==
  /\ run.live
  /\ run.close
  /\ Cardinality(run.fields) = 1
  /\ Len(run.edits) >= 2
  /\ sinceEdit = TimeStep
  /\ Pending = 1
  /\ run.reqs = << >>
  /\ saves = {}

-----------------------------------------------------------------------------
(* C20: every persist request is addressed to the id of the document whose
   blocks are rendered in the editor when the request is issued: no request
   carries the title and block texts of one document under the id and
   metadata of another. *)
C20_AddressedToRendered ==
  Persisted => /\ JustSent.id = shown.page.id
               /\ JustSent.body.icon = shown.page.icon

-----------------------------------------------------------------------------
(* The positions a block edited within MaxEvents user events can have. *)
BlockIndexes == 1..MaxEvents

(* C21: no edit remains forever unsent.  A text typed into the title, or
   into a block, is later carried by a persist request in that field, unless
   the field has been given another text or the document has been replaced
   before the request: when the edits stop and the document stays open, a
   request with the final title and the final text of every edited block is
   issued. *)
C21_EditsEventuallySent ==
  \A text \in TypedTexts :
    /\ (lastOp.op = "edit" /\ title = text)
         ~> \/ title # text
            \/ Persisted /\ JustSent.body.title = text
    /\ \A i \in BlockIndexes :
         (lastOp.op = "edit" /\ i \in DOMAIN blocks /\ blocks[i].value = text)
           ~> \/ ~(i \in DOMAIN blocks /\ blocks[i].value = text)
              \/ /\ Persisted
                 /\ i \in DOMAIN JustSent.body.content
                 /\ JustSent.body.content[i].content.text = text

(* C21 witness: the title and a block were edited, the edits stopped, every
   timeout has fired, and the request issued last carries both texts. *)
C21_Witness ==
  /\ Persisted
  /\ Pending = 0
  /\ shown.page # NoPage
  /\ currentPage.id = shown.page.id
  /\ title \in TypedTexts
  /\ JustSent.body.title = title
  /\ \E i \in DOMAIN blocks :
       /\ blocks[i].value \in TypedTexts
       /\ JustSent.body.content[i].content.text = blocks[i].value

-----------------------------------------------------------------------------
(* C22: when several loads overlap, once all of them have completed
   successfully the current document and the rendered editor are those of
   the load that was requested last, whatever order the responses arrived
   in. *)
C22_LastRequestedWins ==
  lastOp.op = "loaded" /\ loads = << >> /\ asked # NotAsked =>
    /\ currentPage.id = asked
    /\ shown.page.id = asked

=============================================================================
